---- MODULE Spec2Model ----
(***************************************************************************)
(* Model of streamlit_app.py: one click of the "start" button runs the    *)
(* highlight pipeline (save temp file, upload, wait for the remote file,   *)
(* select a model, generate, parse, cut, render, clean up).                *)
(*                                                                         *)
(* Times are fixed-point, in hundredths of a second.  A local variable of  *)
(* the script is tracked over its live range: once the script can no       *)
(* longer read it, it is set back to its empty value.                      *)
(***************************************************************************)
EXTENDS Integers, Sequences, FiniteSets, TLC

\* ---------------------------------------------------------------- bounds
MaxPolls == 2
MaxModels == 2
MaxSegs == 2

\* ------------------------------------------------------------- constants
\* line 258: end - start > 0.5, in hundredths of a second
HalfSecond == 50

None == <<>>

Max(a, b) == IF a >= b THEN a ELSE b
Min(a, b) == IF a <= b THEN a ELSE b
Range(s) == {s[i] : i \in 1..Len(s)}
Last(s) == s[Len(s)]
SeqsUpTo(S, n) == UNION {[1..k -> S] : k \in 0..n}
NoRepeat(s) == \A i, j \in 1..Len(s) : i # j => s[i] # s[j]

\* ======================================================= model selection
\* A model name is the sequence of its parts between the separators "/"
\* and "-"; (keyword in m) is containment of a contiguous run of parts.
\* The names below are chosen so that this agrees with containment of
\* character strings.
priority_list ==
    << <<"gemini", "2.5", "flash">>,
       <<"gemini", "2.0", "flash">>,
       <<"gemini", "1.5", "flash">>,
       <<"gemini", "flash">>,
       <<"gemini", "2.5", "pro">>,
       <<"gemini", "2.0", "pro">>,
       <<"gemini", "1.5", "pro">>,
       <<"gemini", "pro">> >>

\* What genai.list_models() may yield: name and supported_generation_methods.
ModelCatalog ==
    { [name |-> <<"models", "gemini", "2.5", "flash">>,
       supported_generation_methods |-> {"generateContent", "countTokens"}],
      [name |-> <<"models", "gemini", "2.5", "flash", "lite">>,
       supported_generation_methods |-> {"generateContent", "countTokens"}],
      [name |-> <<"models", "gemini", "2.5", "flash", "live">>,
       supported_generation_methods |-> {"bidiGenerateContent"}],
      [name |-> <<"models", "gemini", "1.5", "pro">>,
       supported_generation_methods |-> {"generateContent"}],
      [name |-> <<"models", "gemini", "pro", "vision">>,
       supported_generation_methods |-> {"generateContent"}],
      [name |-> <<"models", "gemma", "3">>,
       supported_generation_methods |-> {"generateContent"}],
      [name |-> <<"models", "learnlm">>,
       supported_generation_methods |-> {"generateContent"}],
      [name |-> <<"models", "embedding", "001">>,
       supported_generation_methods |-> {"embedContent"}] }

\* The listings: up to MaxModels distinct catalog entries, in any order.
Listings == {l \in SeqsUpTo(ModelCatalog, MaxModels) : NoRepeat(l)}

\* line 196: keyword in m
Contains(keyword, m) ==
    \E i \in 1..(Len(m) - Len(keyword) + 1) :
        SubSeq(m, i, i + Len(keyword) - 1) = keyword

\* lines 174-178: the names of the listed models that support generateContent
EligibleAll(listing) == [i \in 1..Len(listing) |-> listing[i].name]
Eligible(listing) ==
    LET F[i \in 0..Len(listing)] ==
            IF i = 0 THEN <<>>
            ELSE IF "generateContent" \in listing[i].supported_generation_methods
                 THEN Append(F[i - 1], listing[i].name)
                 ELSE F[i - 1]
    IN  F[Len(listing)]

\* the last, not the first, model that contains the keyword
LastContaining(keyword, models) ==
    LET hits == {i \in 1..Len(models) : Contains(keyword, models[i])}
    IN  IF hits = {} THEN None
        ELSE models[CHOOSE i \in hits : \A j \in hits : i >= j]

\* line 196: next((m for m in available_models if keyword in m), None)
FirstContaining(keyword, models) ==
    LET hits == {i \in 1..Len(models) : Contains(keyword, models[i])}
    IN  IF hits = {} THEN None
        ELSE models[CHOOSE i \in hits : \A j \in hits : i <= j]

\* lines 192-199: the loop over priority_list, from keyword number k on
RECURSIVE MatchFrom(_, _)
MatchFrom(k, models) ==
    IF k > Len(priority_list) THEN None
    ELSE LET found == FirstContaining(priority_list[k], models)
         IN  IF found # None THEN found ELSE MatchFrom(k + 1, models)

\* a selection that scans the candidates first and the keywords second
SelectCandidateMajor(models) ==
    LET hits == {i \in 1..Len(models) :
                    \E k \in 1..Len(priority_list) : Contains(priority_list[k], models[i])}
    IN  IF hits # {} THEN models[CHOOSE i \in hits : \A j \in hits : i <= j]
        ELSE IF models # <<>> THEN models[1] ELSE None

\* lines 192-203: selected_model_name (None when nothing is available)
SelectModel(models) ==
    LET matched == MatchFrom(1, models)
    IN  IF matched = None /\ models # <<>> THEN models[1] ELSE matched

\* ================================================== segment sanitization
\* The values a decoded start or end may take (hundredths of a second).
TimeVals == {-50, 0, 50, 51, 250}
\* clip.duration of the source
Durations == {100, 200}

Segment == [start : TimeVals, end : TimeVals]

\* lines 256-257
ClampStart(s) == Max(0, s)
ClampEndNone(d, e) == e
ClampEndSwapped(d, e) == Max(d, e)
ClampEnd(d, e) == Min(d, e)

\* line 258
KeepAtLeast(start, end) == end - start >= HalfSecond
Keep(start, end) == end - start > HalfSecond

\* lines 253-259: the loop that builds subclips
RECURSIVE Subclips(_, _)
Subclips(ts, d) ==
    IF ts = <<>> THEN <<>>
    ELSE LET start == ClampStart(Head(ts).start)
             end == ClampEnd(d, Head(ts).end)
             rest == Subclips(Tail(ts), d)
         IN  IF Keep(start, end)
             THEN <<[start |-> start, end |-> end]>> \o rest
             ELSE rest

\* ========================================================= model output
\* response.text is a sequence of pieces: a Markdown fence, free prose, a
\* JSON array of segments, or some other JSON value.  A response without a
\* text part (a blocked answer) makes response.text raise.
Piece(kind, items) == [kind |-> kind, items |-> items]
Arrays == SeqsUpTo(Segment, MaxSegs)
Responses ==
    {<<Piece("array", a)>> : a \in Arrays}
    \cup {<<Piece("fence_json", <<>>), Piece("array", a), Piece("fence", <<>>)>> : a \in Arrays}
    \cup { <<>>,
           <<Piece("prose", <<>>)>>,
           <<Piece("prose", <<>>), Piece("array", <<>>)>>,
           <<Piece("fence_json", <<>>), Piece("prose", <<>>), Piece("fence", <<>>)>>,
           <<Piece("object", <<>>)>>,
           <<Piece("blocked", <<>>)>> }

\* line 223: the Markdown fence markers are replaced by "", then strip()
CleanJson(text) == SelectSeq(text, LAMBDA p : p.kind \notin {"fence_json", "fence"})

\* lines 223-229: what decoding and listing the answer ends in
\*   "ok"              json.loads gave a list of start/end objects
\*   "JSONDecodeError" json.loads rejected the text
\*   "Exception"       response.text raised, or the value is no list of segments
Decode(text) ==
    LET clean == CleanJson(text)
    IN  IF \E i \in 1..Len(text) : text[i].kind = "blocked" THEN "Exception"
        ELSE IF Len(clean) # 1 \/ clean[1].kind \notin {"array", "object"}
             THEN "JSONDecodeError"
        ELSE IF clean[1].kind = "object" THEN "Exception"
        ELSE "ok"

\* lines 228-233: the decisions as they are written to the status box, one
\* line per decoded entry: its start, its end and duration = end - start
Listing(ts) ==
    [i \in 1..Len(ts) |->
        [start |-> ts[i].start, end |-> ts[i].end, duration |-> ts[i].end - ts[i].start]]

\* lines 226-231: total_cut_duration, the sum of those durations
RECURSIVE TotalCutDuration(_)
TotalCutDuration(ts) ==
    IF ts = <<>> THEN 0
    ELSE (Head(ts).end - Head(ts).start) + TotalCutDuration(Tail(ts))

\* ============================================================ the script
Files == {"temp_video_path", "ai_output_temp.mp4"}
LockModes == {"free", "transient", "permanent"}

\* The progress bars of the encoder that report to the logger: "t" for the
\* frames of the timeline, "chunk" for the audio.
BarNames == {"t", "chunk"}
\* the lengths an encoder loop may have
Totals == {0, 2}
\* logger.bars before any bar has reported
NoBars == [bar \in {} |-> [total |-> 0, index |-> 0]]

\* The browser sessions that may run the script at the same time, and the
\* paths their runs use: the names NamedTemporaryFile can give out, and the
\* output path of line 268.
Sessions == {"A", "B"}
TempNames == {"tmp_1.mp4", "tmp_2.mp4"}
Paths == TempNames \cup {"ai_output_temp.mp4"}
Idle == [pc |-> "idle", temp_video_path |-> "None", output_path |-> "None",
         shown |-> "none", touched |-> {}]

VARIABLES
    pc,                  \* where the script is
    stages,              \* the pipeline states passed through, in order
    ops,                 \* the external calls made, in order (the get_file
                         \* calls of one wait loop are one entry)
    errors,              \* st.warning / st.error messages shown, in order
    exists,              \* exists[f]: local file f exists
    lock,                \* lock[f]: a lingering handle refuses removal of f
    rmTries,             \* rmTries[f]: os.remove(f) attempts made in finally
    remote,              \* state of the uploaded file at the service
    video_file,          \* "None" or "file"
    file_state,          \* file.state.name as last polled
    polls,               \* time.sleep(5) rounds of the wait loop in progress
    available_models, selected_model_name,
    response, timestamps,
    decisions,           \* the decisions written to the status box (lines 228-233),
                         \* kept as long as timestamps is
    total_cut_duration,  \* the total shown under them (line 235)
    clip, duration, subclips, final_clip,
    bars,                \* logger.bars: the state of each progress bar of the encoder
    progress,            \* what progress_bar shows: None, or <<numerator, denominator>>
    cleaned,             \* <<>>, or what was left when the finally block ended
    session,             \* session[s]: a script run of browser session s
    disk                 \* disk[path]: "none", or the session that wrote the file

vars == <<pc, stages, ops, errors, exists, lock, rmTries, remote, video_file,
          file_state, polls, available_models, selected_model_name,
          response, timestamps, decisions, total_cut_duration,
          clip, duration, subclips, final_clip, bars, progress, cleaned,
          session, disk>>

fsVars == <<exists, lock, rmTries>>
remoteVars == <<remote, video_file, file_state, polls>>
modelVars == <<available_models, selected_model_name>>
parseVars == <<response, timestamps, decisions, total_cut_duration>>
clipVars == <<clip, duration, subclips, final_clip>>
loggerVars == <<bars, progress>>
sessionVars == <<session, disk>>

Init ==
    /\ pc = "click"
    /\ stages = <<"INIT">>
    /\ ops = <<>>
    /\ errors = <<>>
    /\ exists = [f \in Files |-> FALSE]
    /\ lock = [f \in Files |-> "free"]
    /\ rmTries = [f \in Files |-> 0]
    /\ remote = "NONE"
    /\ video_file = "None"
    /\ file_state = "NONE"
    /\ polls = 0
    /\ available_models = <<>>
    /\ selected_model_name = None
    /\ response = <<>>
    /\ timestamps = <<>>
    /\ decisions = <<>>
    /\ total_cut_duration = 0
    /\ clip = "None"
    /\ duration = 0
    /\ subclips = <<>>
    /\ final_clip = "None"
    /\ bars = NoBars
    /\ progress = None
    /\ cleaned = <<>>
    /\ session = [s \in Sessions |-> Idle]
    /\ disk = [path \in Paths |-> "none"]

\* ------------------------------------------------------ control transfer
\* Advance to the next statement, entering pipeline state stage.
Goto(label, stage) ==
    /\ pc' = label
    /\ stages' = IF Last(stages) = stage THEN stages ELSE Append(stages, stage)
    /\ errors' = errors

\* A message shown before the try block; control continues at label.
Warn(message, label) ==
    /\ pc' = label
    /\ stages' = stages
    /\ errors' = Append(errors, message)

\* st.stop() (or an exception) before the try block: the script run ends.
Abort(message) == Warn(message, "returned")

\* An error shown inside the try block; control continues at label
\* ("finally" after st.stop() or in the outer handler of line 303).
Raise(message, label) ==
    /\ pc' = label
    /\ stages' = IF label = "finally" THEN Append(stages, "ERROR") ELSE stages
    /\ errors' = Append(errors, message)

\* line 127: genai.configure raised
AfterBadKeyIgnored == "save_temp"
AfterBadKey == "returned"
\* line 150: wait_for_files_active returned False
AfterNotActiveIgnored == "list_models"
AfterNotActive == "finally"
\* line 208: no model was selected
AfterNoModelIgnored == "generate"
AfterNoModel == "finally"
\* line 240: json.JSONDecodeError
AfterMalformedIgnored == "open_clip"
AfterMalformed == "finally"
\* line 263: subclips is empty
AfterNoSubclipsIgnored == "concat"
AfterNoSubclips == "finally"

Call(name) == ops' = Append(ops, name)

\* ------------------------------------------------- before the try block
\* lines 96-117: the button is clicked; the required fields are checked
Click ==
    /\ pc = "click"
    /\ \E api_key \in BOOLEAN, uploaded_file \in BOOLEAN :
          \/ /\ ~api_key
             /\ Abort("MissingApiKey")
          \/ /\ api_key /\ ~uploaded_file
             /\ Abort("MissingVideo")
          \/ /\ api_key /\ uploaded_file
             /\ Goto("configure", "INIT")
    /\ UNCHANGED <<loggerVars, cleaned, sessionVars, ops, fsVars, remoteVars, modelVars, parseVars, clipVars>>

\* lines 123-127: genai.configure
Configure ==
    /\ pc = "configure"
    /\ \/ Goto("save_temp", "INIT")
       \/ Warn("CredentialError", AfterBadKey)
    /\ UNCHANGED <<loggerVars, cleaned, sessionVars, ops, fsVars, remoteVars, modelVars, parseVars, clipVars>>

\* lines 130-138: the upload is written to a NamedTemporaryFile(delete=False)
SaveTemp ==
    /\ pc = "save_temp"
    /\ exists' = [exists EXCEPT !["temp_video_path"] = TRUE]
    /\ \/ Goto("upload", "UPLOADING")
       \/ Abort("UncaughtException")          \* tfile.write raises
    /\ UNCHANGED <<loggerVars, cleaned, sessionVars, ops, lock, rmTries, remoteVars, modelVars, parseVars, clipVars>>

\* ------------------------------------------------------- the try block
\* lines 142-146: genai.upload_file
Upload ==
    /\ pc = "upload"
    /\ Call("upload_file")
    /\ \/ /\ video_file' = "file"
          /\ remote' = "PROCESSING"
          /\ Goto("poll", "AWAITING_REMOTE_READY")
       \/ /\ UNCHANGED <<video_file, remote>>
          /\ Raise("UnexpectedError", "finally")
    /\ UNCHANGED <<loggerVars, cleaned, sessionVars, fsVars, file_state, polls, modelVars, parseVars, clipVars>>

\* The service finishes processing the uploaded file.
RemoteProgress ==
    /\ remote = "PROCESSING"
    /\ remote' \in {"ACTIVE", "FAILED"}
    /\ UNCHANGED <<loggerVars, cleaned, sessionVars, pc, stages, ops, errors, fsVars, video_file, file_state, polls,
                   modelVars, parseVars, clipVars>>

\* line 43: while file.state.name == "PROCESSING"
PendingOrFailed == {"PROCESSING", "FAILED"}
Pending == {"PROCESSING"}

\* lines 39-49 and 148-150: one genai.get_file of wait_for_files_active and
\* what the loop does with its answer
Poll ==
    /\ pc = "poll"
    /\ polls < MaxPolls \/ remote \notin Pending
    /\ ops' = IF Last(ops) = "get_file" THEN ops ELSE Append(ops, "get_file")
    /\ \/ /\ remote \in Pending
          /\ file_state' = remote
          /\ polls' = polls + 1               \* time.sleep(5)
          /\ Goto("poll", "AWAITING_REMOTE_READY")
       \/ /\ remote \notin Pending /\ remote = "ACTIVE"
          /\ file_state' = remote
          /\ polls' = 0
          /\ Goto("list_models", "SELECTING_MODEL")
       \/ /\ remote \notin Pending /\ remote # "ACTIVE"
          /\ file_state' = remote
          /\ polls' = 0
          /\ Raise("RemoteProcessingFailure", AfterNotActive)
       \/ /\ file_state' = file_state        \* get_file raises
          /\ polls' = 0
          /\ Raise("UnexpectedError", "finally")
    /\ UNCHANGED <<loggerVars, cleaned, sessionVars, fsVars, remote, video_file, modelVars, parseVars, clipVars>>

\* lines 172-178: genai.list_models, filtered
ListModels ==
    /\ pc = "list_models"
    /\ Call("list_models")
    /\ \/ /\ \E listing \in Listings : available_models' = Eligible(listing)
          /\ Goto("match", "SELECTING_MODEL")
       \/ /\ UNCHANGED available_models
          /\ Raise("ModelInvocationError", "finally")
    /\ UNCHANGED <<loggerVars, cleaned, sessionVars, fsVars, remoteVars, selected_model_name, parseVars, clipVars>>

\* lines 192-210: the priority match and the check that a model was found
Match ==
    /\ pc = "match"
    /\ selected_model_name' = SelectModel(available_models)
    /\ \/ /\ selected_model_name' # None
          /\ Goto("generate", "ANALYZING")
       \/ /\ selected_model_name' = None
          /\ Raise("NoEligibleModelError", AfterNoModel)
    /\ UNCHANGED <<loggerVars, cleaned, sessionVars, ops, fsVars, remoteVars, available_models, parseVars, clipVars>>

\* lines 213 and 216-219: genai.GenerativeModel(model_name=selected_model_name)
MakeModel ==
    /\ pc = "generate"
    /\ \/ Goto("generate_content", "ANALYZING")
       \/ Raise("ModelInvocationError", "finally")
    /\ available_models' = <<>>
    /\ selected_model_name' = None
    /\ UNCHANGED <<loggerVars, cleaned, sessionVars, ops, fsVars, remoteVars, parseVars,
                   clipVars>>

\* lines 214-219: model.generate_content
Generate ==
    /\ pc = "generate_content"
    /\ Call("generate_content")
    /\ \/ /\ response' \in Responses
          /\ Goto("parse", "PARSING")
       \/ /\ UNCHANGED response
          /\ Raise("ModelInvocationError", "finally")
    /\ UNCHANGED modelVars
    /\ UNCHANGED <<loggerVars, cleaned, sessionVars, fsVars, remoteVars, timestamps,
                   decisions, total_cut_duration, clipVars>>

\* lines 222-240: decode the answer and list the decisions
Parse ==
    /\ pc = "parse"
    /\ \/ /\ Decode(response) = "ok"
          /\ Call("json.loads")
          /\ timestamps' = CleanJson(response)[1].items
          /\ decisions' = Listing(timestamps')
          /\ total_cut_duration' = TotalCutDuration(timestamps')
          /\ Goto("open_clip", "ASSEMBLING")
       \/ /\ Decode(response) = "JSONDecodeError"
          /\ Call("json.loads")
          /\ UNCHANGED <<timestamps, decisions, total_cut_duration>>
          /\ Raise("MalformedOutputError", AfterMalformed)
       \/ /\ Decode(response) = "Exception"
          /\ UNCHANGED <<ops, timestamps, decisions, total_cut_duration>>
          /\ Raise("UnexpectedError", "finally")
    /\ response' = <<>>
    /\ UNCHANGED <<loggerVars, cleaned, sessionVars, fsVars, remoteVars, modelVars,
                   clipVars>>

\* lines 243-253: VideoFileClip(temp_video_path)
OpenClip ==
    /\ pc = "open_clip"
    /\ progress' = <<0, 1>>                     \* line 249: st.progress(0)
    /\ Call("VideoFileClip")
    /\ \/ /\ clip' = "open"
          /\ duration' \in Durations
          /\ Goto("subclip", "ASSEMBLING")
       \/ /\ UNCHANGED <<clip, duration>>
          /\ Raise("UnexpectedError", "finally")
    /\ UNCHANGED <<bars, cleaned, sessionVars, fsVars, remoteVars, modelVars, parseVars,
                   subclips, final_clip>>

\* lines 255-263: clamp, filter, and the check that something is left
CutSubclips ==
    /\ pc = "subclip"
    /\ subclips' = Subclips(timestamps, duration)
    /\ \/ /\ subclips' # <<>>
          /\ Goto("concat", "ASSEMBLING")
       \/ /\ subclips' = <<>>
          /\ Raise("NoUsableSegmentsError", AfterNoSubclips)
    /\ UNCHANGED <<loggerVars, cleaned, sessionVars, ops, fsVars, remoteVars, modelVars, parseVars, clip, duration,
                   final_clip>>

\* line 265: concatenate_videoclips
Concat ==
    /\ pc = "concat"
    /\ Call("concatenate_videoclips")
    /\ \/ /\ final_clip' = "open"
          /\ Goto("write", "ASSEMBLING")
       \/ /\ UNCHANGED final_clip
          /\ Raise("UnexpectedError", "finally")
    /\ timestamps' = <<>>
    /\ decisions' = <<>>
    /\ total_cut_duration' = 0
    /\ subclips' = <<>>
    /\ UNCHANGED <<loggerVars, cleaned, sessionVars, fsVars, remoteVars, modelVars,
                   response, clip, duration>>

\* ------------------------------------------------------------ the logger
\* line 25: bar == "t"
TrackedAny(bar) == TRUE
Tracked(bar) == bar = "t"

\* line 28: min(value / total, 1.0), as <<numerator, denominator>>
Fraction(value, total) == IF value >= total THEN <<1, 1>> ELSE <<value, total>>

\* lines 22-35: StreamlitLogger.bars_callback(bar, attr, value), called by the
\* progress-bar logger after it has stored value in bars[bar][attr]
bars_callback(bar, attr, value) ==
    IF Tracked(bar) /\ "total" \in DOMAIN bars'[bar]
    THEN LET total == bars'[bar].total
         IN  IF total > 0
             THEN progress' = Fraction(value, total)
             ELSE progress' = progress
    ELSE progress' = progress

\* the last index a bar of this length reports (an empty loop reports 0, 1)
LastIndex(total) == Max(total, 1)

\* lines 268-271: the logger is made and final_clip.write_videofile is entered
WriteVideo ==
    /\ pc = "write"
    /\ Call("write_videofile")
    /\ bars' = NoBars
    /\ Goto("encode", "ASSEMBLING")
    /\ UNCHANGED <<progress, cleaned, sessionVars, fsVars, remoteVars, modelVars,
                   parseVars, clipVars>>

\* lines 271-277: an encoder loop starts: the logger is told the length of
\* bar (attr "total") before any of its indices
BarsTotal ==
    /\ pc = "encode"
    /\ \E bar \in BarNames \ DOMAIN bars, total \in Totals :
          /\ bars' = [b \in DOMAIN bars \cup {bar} |->
                         IF b = bar THEN [total |-> total, index |-> -1] ELSE bars[b]]
          /\ bars_callback(bar, "total", total)
    /\ UNCHANGED <<pc, stages, ops, errors, cleaned, sessionVars, fsVars, remoteVars,
                   modelVars, parseVars, clipVars>>

\* lines 271-277: an encoder loop advances (attr "index"): index 0 first, any
\* later index as time allows, the last but one and the last always
BarsIndex ==
    /\ pc = "encode"
    /\ \E bar \in DOMAIN bars :
          \E index \in (bars[bar].index + 1)..LastIndex(bars[bar].total) :
             /\ bars[bar].index = -1 => index = 0
             /\ index = LastIndex(bars[bar].total) => bars[bar].index = index - 1
             /\ bars' = [bars EXCEPT ![bar].index = index]
             /\ bars_callback(bar, "index", index)
    /\ UNCHANGED <<pc, stages, ops, errors, cleaned, sessionVars, fsVars, remoteVars,
                   modelVars, parseVars, clipVars>>

\* lines 271-277: write_videofile returns once every loop it started has
\* ended, or raises at any point, with or without a partial output file
WriteDone ==
    /\ pc = "encode"
    /\ \/ /\ \A bar \in DOMAIN bars : bars[bar].index = LastIndex(bars[bar].total)
          /\ exists' = [exists EXCEPT !["ai_output_temp.mp4"] = TRUE]
          /\ Goto("present", "ASSEMBLING")
       \/ /\ \E partial \in BOOLEAN :
                exists' = [exists EXCEPT !["ai_output_temp.mp4"] = partial]
          /\ Raise("UnexpectedError", "finally")
    /\ bars' = NoBars
    /\ UNCHANGED <<ops, progress, cleaned, sessionVars, lock, rmTries, remoteVars,
                   modelVars, parseVars, clipVars>>

\* lines 279-294: the result is shown and offered for download
Present ==
    /\ pc = "present"
    /\ \/ Goto("delete", "DONE")
       \/ Raise("UnexpectedError", "finally")
    /\ UNCHANGED <<loggerVars, cleaned, sessionVars, ops, fsVars, remoteVars, modelVars, parseVars, clipVars>>

\* lines 296-301: genai.delete_file, failure ignored
DeleteRemote ==
    /\ pc = "delete"
    /\ video_file # "None"
    /\ Call("delete_file")
    /\ \/ remote' = "DELETED"
       \/ remote' = remote
    /\ Goto("finally", "DONE")
    /\ UNCHANGED <<loggerVars, cleaned, sessionVars, fsVars, video_file, file_state, polls, modelVars, parseVars, clipVars>>

\* ------------------------------------------------------ the finally block
\* os.remove on a file that a lingering handle still holds is refused.
RemoveOutcome(mode) == IF mode = "free" THEN "removed" ELSE "PermissionError"

\* time.sleep(1): a transient lock is gone afterwards
NoSleep(mode) == mode
AfterSleep(mode) == IF mode = "transient" THEN "free" ELSE mode

\* lines 323 and 337: the failures after which removal is tried again
NeverRetried == {}
Retried == {"PermissionError"}

\* lines 308-317: if clip: clip.close()
NotClosed(c) == c
Closed(c) == IF c = "open" THEN "closed" ELSE c

\* lines 306-317: clip.close() and final_clip.close().  A handle of the media
\* library may outlive the close() of an open clip and keep the file it has
\* open locked.
CloseClips ==
    /\ pc = "finally"
    /\ clip' = Closed(clip)
    /\ final_clip' = Closed(final_clip)
    /\ \E m \in [Files -> LockModes] :
          /\ clip # "open" => m["temp_video_path"] = lock["temp_video_path"]
          /\ (final_clip # "open" \/ ~exists["ai_output_temp.mp4"]) =>
                m["ai_output_temp.mp4"] = lock["ai_output_temp.mp4"]
          /\ lock' = m
    /\ timestamps' = <<>>
    /\ decisions' = <<>>
    /\ total_cut_duration' = 0
    /\ Goto("rm_in", "CLEANUP")
    /\ UNCHANGED <<loggerVars, cleaned, sessionVars, ops, exists, rmTries, remoteVars,
                   modelVars, response, duration, subclips>>

\* lines 320-323 / 334-337: os.path.exists(f) and the first os.remove(f)
RemoveFirst(f, here, retry, next) ==
    /\ pc = here
    /\ \/ /\ ~exists[f]
          /\ UNCHANGED <<exists, rmTries>>
          /\ Goto(next, "CLEANUP")
       \/ /\ exists[f]
          /\ RemoveOutcome(lock[f]) = "removed"
          /\ exists' = [exists EXCEPT ![f] = FALSE]
          /\ rmTries' = [rmTries EXCEPT ![f] = @ + 1]
          /\ Goto(next, "CLEANUP")
       \/ /\ exists[f]
          /\ RemoveOutcome(lock[f]) # "removed"
          /\ UNCHANGED exists
          /\ rmTries' = [rmTries EXCEPT ![f] = @ + 1]
          /\ Goto(IF RemoveOutcome(lock[f]) \in Retried THEN retry ELSE next, "CLEANUP")
    /\ UNCHANGED <<loggerVars, cleaned, sessionVars, ops, lock, remoteVars, modelVars, parseVars, clipVars>>

\* lines 328-329 / 341-342: except: pass after the second os.remove
TryOnceMore(here, next) == here
GiveUp(here, next) == next

\* lines 324-329 / 338-342: time.sleep(1), the second os.remove(f), failure ignored
RemoveAgain(f, here, next) ==
    /\ pc = here
    /\ lock' = [lock EXCEPT ![f] = AfterSleep(@)]
    /\ rmTries' = [rmTries EXCEPT ![f] = @ + 1]
    /\ \/ /\ RemoveOutcome(lock'[f]) = "removed"
          /\ exists' = [exists EXCEPT ![f] = FALSE]
          /\ Goto(next, "CLEANUP")
       \/ /\ RemoveOutcome(lock'[f]) # "removed"
          /\ UNCHANGED exists
          /\ Goto(GiveUp(here, next), "CLEANUP")
    /\ UNCHANGED <<loggerVars, cleaned, sessionVars, ops, remoteVars, modelVars, parseVars, clipVars>>

RemoveInput == RemoveFirst("temp_video_path", "rm_in", "rm_in_retry", "rm_out")
RemoveInputAgain == RemoveAgain("temp_video_path", "rm_in_retry", "rm_out")
RemoveOutput == RemoveFirst("ai_output_temp.mp4", "rm_out", "rm_out_retry", "returned")
RemoveOutputAgain == RemoveAgain("ai_output_temp.mp4", "rm_out_retry", "returned")

Next ==
    \/ Click
    \/ Configure
    \/ SaveTemp
    \/ Upload
    \/ RemoteProgress
    \/ Poll
    \/ ListModels
    \/ Match
    \/ MakeModel
    \/ Generate
    \/ Parse
    \/ OpenClip
    \/ CutSubclips
    \/ Concat
    \/ WriteVideo
    \/ BarsTotal
    \/ BarsIndex
    \/ WriteDone
    \/ Present
    \/ DeleteRemote
    \/ CloseClips
    \/ RemoveInput
    \/ RemoveInputAgain
    \/ RemoveOutput
    \/ RemoveOutputAgain

Spec == Init /\ [][Next]_vars

\* ------------------------------------------------------------- fairness
\* The interpreter keeps executing the script, and the service does not
\* leave an uploaded file in PROCESSING for ever.
Fairness == WF_vars(Next) /\ WF_vars(RemoteProgress)
SpecFair == Spec /\ Fairness

\* ------------------------------------------- the finally block, once more
\* By the time the block runs again a transient lock is gone; a permanent
\* lock is one that is held for as long as the process lives.
Released(mode) == IF mode = "transient" THEN "free" ELSE mode

\* what a run has left behind and shown
Left ==
    [exists |-> exists, errors |-> errors, ops |-> ops, stages |-> stages,
     clip |-> clip, final_clip |-> final_clip, progress |-> progress]

\* lines 306-344 are entered a second time, after the run has returned from
\* them
CleanupAgain ==
    /\ pc = "returned"
    /\ Len(stages) > 1
    /\ cleaned = <<>>
    /\ cleaned' = <<Left>>
    /\ pc' = "finally"
    /\ rmTries' = [f \in Files |-> 0]
    /\ lock' = [f \in Files |-> Released(lock[f])]
    /\ UNCHANGED <<stages, ops, errors, exists, remoteVars, modelVars, parseVars,
                   clipVars, loggerVars, sessionVars>>

NextAgain ==
    \/ Next
    \/ CleanupAgain

SpecAgain == Init /\ [][NextAgain]_vars

\* ------------------------------------------------- two sessions at once
\* Each browser session runs the script in a thread of its own, in the same
\* process and working directory.  Of a run, the statements that touch the
\* local files are kept; all sessions share the disk.
scriptVars ==
    <<pc, stages, ops, errors, fsVars, remoteVars, modelVars, parseVars, clipVars,
      loggerVars, cleaned>>

Running(s) == session[s].pc \notin {"idle", "returned"}

\* the running session, other than s, whose file at path s is about to
\* overwrite or remove
Hit(s, path) ==
    IF disk[path] \notin {"none", s} /\ Running(disk[path]) THEN {disk[path]} ELSE {}

\* lines 130-133: NamedTemporaryFile creates a file under a random name that
\* is not in use and that no other run has been given
SessSaveTemp(s) ==
    /\ session[s].pc = "idle"
    /\ \E name \in TempNames :
          /\ disk[name] = "none"
          /\ \A t \in Sessions : session[t].temp_video_path # name
          /\ disk' = [disk EXCEPT ![name] = s]
          /\ session' = [session EXCEPT ![s].pc = "analyse",
                                         ![s].temp_video_path = name]
    /\ UNCHANGED scriptVars

\* lines 140-265: upload to concatenation; any of it may fail
SessAnalyse(s) ==
    /\ session[s].pc = "analyse"
    /\ \E next \in {"write", "finally"} :
          session' = [session EXCEPT ![s].pc = next]
    /\ UNCHANGED <<disk, scriptVars>>

\* lines 268-277: write_videofile creates or overwrites output_path
SessWrite(s) ==
    /\ session[s].pc = "write"
    /\ \/ /\ disk' = [disk EXCEPT !["ai_output_temp.mp4"] = s]
          /\ \E next \in {"present", "finally"} :
                session' = [session EXCEPT
                               ![s].pc = next,
                               ![s].output_path = "ai_output_temp.mp4",
                               ![s].touched = @ \cup Hit(s, "ai_output_temp.mp4")]
       \/ /\ UNCHANGED disk
          /\ session' = [session EXCEPT ![s].pc = "finally",
                                         ![s].output_path = "ai_output_temp.mp4"]
    /\ UNCHANGED scriptVars

\* lines 279-294: st.video(output_path) and open(output_path) read whatever
\* file is at the path; a missing file raises into the handler of line 303
SessPresent(s) ==
    /\ session[s].pc = "present"
    /\ session' = [session EXCEPT ![s].pc = "finally",
                                   ![s].shown = disk[session[s].output_path]]
    /\ UNCHANGED <<disk, scriptVars>>

\* lines 320-331: the temp input is removed
SessRemoveInput(s) ==
    /\ session[s].pc = "finally"
    /\ disk' = [disk EXCEPT ![session[s].temp_video_path] = "none"]
    /\ session' = [session EXCEPT ![s].pc = "exists_out"]
    /\ UNCHANGED scriptVars

\* line 334: os.path.exists("ai_output_temp.mp4")
SessExistsOutput(s) ==
    /\ session[s].pc = "exists_out"
    /\ session' = [session EXCEPT
                      ![s].pc = IF disk["ai_output_temp.mp4"] # "none"
                                THEN "rm_out" ELSE "returned"]
    /\ UNCHANGED <<disk, scriptVars>>

\* lines 335-344: os.remove("ai_output_temp.mp4"); a file that has gone in
\* the meantime raises FileNotFoundError, which is ignored
SessRemoveOutput(s) ==
    /\ session[s].pc = "rm_out"
    /\ disk' = [disk EXCEPT !["ai_output_temp.mp4"] = "none"]
    /\ session' = [session EXCEPT
                      ![s].pc = "returned",
                      ![s].touched = @ \cup Hit(s, "ai_output_temp.mp4")]
    /\ UNCHANGED scriptVars

NextSessions ==
    \/ \E s \in Sessions : SessSaveTemp(s)
    \/ \E s \in Sessions : SessAnalyse(s)
    \/ \E s \in Sessions : SessWrite(s)
    \/ \E s \in Sessions : SessPresent(s)
    \/ \E s \in Sessions : SessRemoveInput(s)
    \/ \E s \in Sessions : SessExistsOutput(s)
    \/ \E s \in Sessions : SessRemoveOutput(s)

SpecSessions == Init /\ [][NextSessions]_vars

\* ----------------------------------------------------------------- types
TypeOK ==
    /\ pc \in {"click", "configure", "save_temp", "upload", "poll", "list_models",
               "match", "generate", "generate_content", "parse", "open_clip",
               "subclip", "concat",
               "write", "encode", "present", "delete", "finally", "rm_in", "rm_in_retry",
               "rm_out", "rm_out_retry", "returned"}
    /\ exists \in [Files -> BOOLEAN]
    /\ lock \in [Files -> LockModes]
    /\ rmTries \in [Files -> 0..2]
    /\ remote \in {"NONE", "PROCESSING", "ACTIVE", "FAILED", "DELETED"}
    /\ polls \in 0..MaxPolls
    /\ clip \in {"None", "open", "closed"}
    /\ final_clip \in {"None", "open", "closed"}
    /\ DOMAIN bars \subseteq BarNames
    /\ progress = None \/ (progress[1] \in 0..progress[2] /\ progress[2] > 0)
    /\ Len(cleaned) <= 1
    /\ disk \in [Paths -> {"none"} \cup Sessions]
    /\ \A s \in Sessions : session[s].temp_video_path \in {"None"} \cup TempNames

\* ================================================================ claims
InTry == Len(stages) > 1
Returned == pc = "returned"
Shown(message) == \E i \in 1..Len(errors) : errors[i] = message
Called(name) == \E i \in 1..Len(ops) : ops[i] = name
Passed(stage) == \E i \in 1..Len(stages) : stages[i] = stage
CleanupRan ==
    /\ Len(stages) >= 2
    /\ Last(stages) = "CLEANUP"
    /\ stages[Len(stages) - 1] \in {"DONE", "ERROR"}

\* C1: a run that entered the try block returns only after CLEANUP, which
\* follows DONE or ERROR, and then neither local temp file exists unless its
\* lock is permanent.
C1_CleanupAlwaysRuns ==
    (Returned /\ InTry) =>
        /\ CleanupRan
        /\ \A f \in Files : lock[f] # "permanent" => ~exists[f]

\* a failed render left a partial output file, the input was locked for a
\* moment, and both files are gone at the return
C1_Witness ==
    /\ Returned
    /\ Passed("ERROR")
    /\ Called("write_videofile")
    /\ rmTries = [f \in Files |-> IF f = "temp_video_path" THEN 2 ELSE 1]
    /\ \A f \in Files : ~exists[f]

\* C2: a run whose upload succeeded has requested deletion of the remote
\* file by the time it returns, whether it ended in DONE or in ERROR.
C2_RemoteDeleteRequested ==
    (Returned /\ video_file = "file") => Called("delete_file")

\* C3: every segment handed to the assembler satisfies 0 <= start < end <= D
\* and is the clamped form of a decoded entry whose end exceeds its start.
C3_SegmentsWithinSource ==
    /\ \A i \in 1..Len(subclips) :
          /\ 0 <= subclips[i].start
          /\ subclips[i].start < subclips[i].end
          /\ subclips[i].end <= duration
    /\ pc = "concat" =>
          \A i \in 1..Len(subclips) :
             \E j \in 1..Len(timestamps) :
                /\ timestamps[j].start < timestamps[j].end
                /\ subclips[i].start = Max(0, timestamps[j].start)
                /\ subclips[i].end = Min(duration, timestamps[j].end)

\* one entry is clamped on both sides and kept, one with end <= start is dropped
C3_Witness ==
    /\ pc = "concat"
    /\ Len(subclips) = 1
    /\ \E j, k \in 1..Len(timestamps) :
          /\ timestamps[j].start < 0 /\ timestamps[j].end > duration
          /\ timestamps[k].end <= timestamps[k].start

\* The clamped length of a decoded entry, and the entries longer than 0.5 s.
ClampedLength(t, d) == Min(d, t.end) - Max(0, t.start)
Retained(ts, d) == {j \in 1..Len(ts) : ClampedLength(ts[j], d) > 50}
NthRetained(ts, d, i) ==
    CHOOSE j \in Retained(ts, d) : Cardinality({k \in Retained(ts, d) : k <= j}) = i
CutDone ==
    \/ pc = "concat"
    \/ pc = "finally" /\ errors # <<>> /\ Last(errors) = "NoUsableSegmentsError"

\* C4: an entry is retained iff its clamped length exceeds 0.5 s, and the
\* retained entries are, in input order and one for one, the clamped forms
\* of exactly those entries.
C4_RetainedIffLongerThanHalfSecond ==
    CutDone =>
        /\ Len(subclips) = Cardinality(Retained(timestamps, duration))
        /\ \A i \in 1..Len(subclips) :
              LET t == timestamps[NthRetained(timestamps, duration, i)]
              IN  /\ subclips[i].start = Max(0, t.start)
                  /\ subclips[i].end = Min(duration, t.end)

\* an entry of clamped length exactly 0.50 is dropped, one of 0.51 is kept
C4_Witness ==
    /\ pc = "concat"
    /\ Len(timestamps) = 2
    /\ ClampedLength(timestamps[1], duration) = 50
    /\ ClampedLength(timestamps[2], duration) = 51
    /\ subclips = <<[start |-> Max(0, timestamps[2].start), end |-> timestamps[2].end]>>

\* The names of the catalog models that support generateContent.
CapableNames ==
    {m.name : m \in {c \in ModelCatalog :
                        "generateContent" \in c.supported_generation_methods}}
MatchingKeywords(models) ==
    {k \in 1..Len(priority_list) :
        \E i \in 1..Len(models) : Contains(priority_list[k], models[i])}
Least(S) == CHOOSE x \in S : \A y \in S : x <= y
Holders(k, models) == {i \in 1..Len(models) : Contains(priority_list[k], models[i])}

\* C5: the selected model is the first eligible candidate containing the
\* earliest priority keyword that any eligible candidate contains, or the
\* first eligible candidate when no keyword matches; it always supports
\* generateContent.
C5_SelectionByPriority ==
    pc = "generate" =>
        /\ selected_model_name \in CapableNames
        /\ \A i \in 1..Len(available_models) : available_models[i] \in CapableNames
        /\ IF MatchingKeywords(available_models) = {}
           THEN selected_model_name = available_models[1]
           ELSE selected_model_name =
                    available_models[Least(Holders(Least(MatchingKeywords(available_models)),
                                                   available_models))]

\* the first candidate matches a later keyword only, the second is selected
C5_Witness ==
    /\ pc = "generate"
    /\ Len(available_models) = 2
    /\ MatchingKeywords(<<available_models[1]>>) # {}
    /\ selected_model_name = available_models[2]

Perms(s) == {p \in [1..Len(s) -> Range(s)] : NoRepeat(p)}
UniqueWinner(models) ==
    IF MatchingKeywords(models) = {}
    THEN Len(models) <= 1
    ELSE Cardinality(Holders(Least(MatchingKeywords(models)), models)) = 1

\* C6 as stated: every order of the same eligible candidates selects the
\* same model.
C6_OrderIndependent ==
    pc = "generate" =>
        \A p \in Perms(available_models) : SelectModel(p) = selected_model_name

\* C6 as amended: every order of the same eligible candidates selects the
\* same model when exactly one of them contains the earliest matching
\* keyword (or, with no keyword matching, there is a single candidate).
C6_OrderIndependentWhenUnique ==
    (pc = "generate" /\ UniqueWinner(available_models)) =>
        \A p \in Perms(available_models) : SelectModel(p) = selected_model_name

\* gemini-1.5-pro listed before gemini-2.5-flash: gemini-2.5-flash is selected
C6_Witness ==
    /\ pc = "generate"
    /\ available_models = << <<"models", "gemini", "1.5", "pro">>,
                             <<"models", "gemini", "2.5", "flash">> >>
    /\ selected_model_name = <<"models", "gemini", "2.5", "flash">>

\* The text, once the fence markers are taken out, is not one JSON value.
NotJson(text) ==
    LET rest == {i \in 1..Len(text) : text[i].kind \notin {"fence_json", "fence"}}
    IN  /\ \A i \in 1..Len(text) : text[i].kind # "blocked"
        /\ \/ Cardinality(rest) # 1
           \/ \E i \in rest : text[i].kind = "prose"

C7_AfterMalformed ==
    Shown("MalformedOutputError") =>
        /\ Passed("PARSING") /\ Passed("ERROR")
        /\ ~Passed("ASSEMBLING") /\ ~Passed("DONE")
        /\ clip = "None" /\ final_clip = "None"
        /\ ~Called("VideoFileClip") /\ ~Called("write_videofile")
        /\ ~exists["ai_output_temp.mp4"]
        /\ Returned => (CleanupRan /\ ~exists["temp_video_path"])

\* C7: a model output that is not decodable JSON is reported as malformed at
\* PARSING and the run goes to ERROR; from then on the source is never
\* opened, no output file is written, and at the return CLEANUP has run and
\* the local temp input file is gone.
C7_MalformedOutput ==
    [][ /\ (pc = "parse" /\ NotJson(response)) =>
              /\ errors' = Append(errors, "MalformedOutputError")
              /\ stages' = Append(stages, "ERROR")
              /\ Last(stages) = "PARSING"
              /\ pc' = "finally"
        /\ C7_AfterMalformed' ]_vars

\* the run returned after a malformed answer; the temp input was removed at
\* the first attempt
C7_Witness ==
    /\ Returned
    /\ errors = <<"MalformedOutputError">>
    /\ rmTries["temp_video_path"] = 1
    /\ ~exists["temp_video_path"]

AllDropped(ts, d) == \A j \in 1..Len(ts) : Min(d, ts[j].end) - Max(0, ts[j].start) <= 50

C8_AfterNoSegments ==
    Shown("NoUsableSegmentsError") =>
        /\ ~Shown("MalformedOutputError")
        /\ ~Called("concatenate_videoclips") /\ ~Called("write_videofile")
        /\ final_clip = "None"
        /\ ~exists["ai_output_temp.mp4"]
        /\ Passed("ERROR") /\ ~Passed("DONE")
        /\ Returned => CleanupRan

\* C8: when no decoded entry survives sanitization (the empty list included)
\* the run reports the no-usable-segments error, which is not the malformed-
\* output error; concatenation and encoding are never invoked, no output
\* file exists, and CLEANUP has run when the run returns.
C8_NoUsableSegments ==
    [][ /\ (pc = "subclip" /\ AllDropped(timestamps, duration)) =>
              /\ errors' = Append(errors, "NoUsableSegmentsError")
              /\ stages' = Append(stages, "ERROR")
              /\ pc' = "finally"
        /\ C8_AfterNoSegments' ]_vars

\* the run returned after every entry was dropped; the source had been opened
C8_Witness ==
    /\ Returned
    /\ errors = <<"NoUsableSegmentsError">>
    /\ clip = "closed"
    /\ CleanupRan

NoneCapable(listing) ==
    \A i \in 1..Len(listing) :
        "generateContent" \notin listing[i].supported_generation_methods

C9_AfterNoModel ==
    Shown("NoEligibleModelError") =>
        /\ ~Called("generate_content")
        /\ Passed("ERROR") /\ ~Passed("ANALYZING")
        /\ Returned => CleanupRan

\* C9: a listing without a model that supports generation leaves no
\* available model, and selection then fails with the no-eligible-model
\* error, which is shown; generate is never invoked in the run, and the run
\* goes on to CLEANUP.
C9_NoEligibleModel ==
    [][ /\ pc = "list_models" =>
              \A l \in Listings : NoneCapable(l) => Eligible(l) = <<>>
        /\ (pc = "match" /\ available_models = <<>>) =>
              /\ errors' = Append(errors, "NoEligibleModelError")
              /\ stages' = Append(stages, "ERROR")
              /\ pc' = "finally"
        /\ C9_AfterNoModel' ]_vars

\* the run returned after the selection found no eligible model
C9_Witness ==
    /\ Returned
    /\ errors = <<"NoEligibleModelError">>
    /\ ops = <<"upload_file", "get_file", "list_models">>
    /\ CleanupRan

CallOrder ==
    <<"upload_file", "get_file", "list_models", "generate_content", "json.loads",
      "VideoFileClip", "concatenate_videoclips", "write_videofile", "delete_file">>
StageOrder ==
    <<"INIT", "UPLOADING", "AWAITING_REMOTE_READY", "SELECTING_MODEL", "ANALYZING",
      "PARSING", "ASSEMBLING", "DONE">>
IsPrefix(s, t) == Len(s) <= Len(t) /\ s = SubSeq(t, 1, Len(s))
\* the stages before ERROR and CLEANUP
Forward(s) == SelectSeq(s, LAMBDA x : x \notin {"ERROR", "CLEANUP"})

\* C10: the calls of a run are made in the order upload, poll, list, generate,
\* decode, open, concatenate, encode, none skipped and none repeated, and
\* none after an error was shown; the model is listed and generate invoked
\* only when the last polled state was ACTIVE; a file polled as FAILED ends
\* the run in ERROR with its message shown, followed by CLEANUP.
C10_StagesInOrder ==
    /\ IsPrefix(ops, CallOrder)
    /\ IsPrefix(Forward(stages), StageOrder)
    /\ errors # <<>> =>
          pc \in {"finally", "rm_in", "rm_in_retry", "rm_out", "rm_out_retry", "returned"}
    /\ (Called("list_models") \/ Called("generate_content")) => file_state = "ACTIVE"
    /\ file_state = "FAILED" =>
          /\ errors = <<"RemoteProcessingFailure">>
          /\ ops = <<"upload_file", "get_file">>
          /\ Passed("ERROR")
          /\ Returned => CleanupRan

\* the remote file was polled as FAILED and the run returned after CLEANUP
C10_Witness ==
    /\ Returned
    /\ file_state = "FAILED"
    /\ stages = <<"INIT", "UPLOADING", "AWAITING_REMOTE_READY", "ERROR", "CLEANUP">>
\* ------------------------------------------------------------- progress
\* p <= q for two displayed fractions
FractionLeq(p, q) == p[1] * q[2] <= q[1] * p[2]

\* C12: during one render the displayed fraction never drops: every value
\* published by a callback of the encoder, the one that sets the length of
\* the timeline bar included, is at least the value displayed before it.
C12_ProgressNeverDrops ==
    [][ (pc = "encode" /\ pc' = "encode") => FractionLeq(progress, progress') ]_vars

\* the bar that reported in a step of the encoder, and the value it reported
ReportingBar == CHOOSE b \in DOMAIN bars' : b \notin DOMAIN bars \/ bars'[b] # bars[b]
ReportedValue ==
    IF ReportingBar \in DOMAIN bars THEN bars'[ReportingBar].index
    ELSE bars'[ReportingBar].total

\* C13: a callback publishes only when it is for bar "t" and the length of
\* that bar is known and positive; the fraction published is then
\* min(value / total, 1.0), which lies in [0, 1]; a callback for another
\* bar, or with a length that is not positive, leaves the display as it is.
C13_PublishedFraction ==
    [][ (pc = "encode" /\ pc' = "encode" /\ bars' # bars) =>
           LET total == bars'[ReportingBar].total
           IN  IF ReportingBar = "t" /\ total > 0
               THEN /\ progress'[1] * total = Min(ReportedValue, total) * progress'[2]
                    /\ 0 <= progress'[1] /\ progress'[1] <= progress'[2]
                    /\ progress'[2] > 0
               ELSE progress' = progress ]_vars

\* half of the frames are written and shown as 1/2; the audio bar has
\* reported as well
C13_Witness ==
    /\ pc = "encode"
    /\ DOMAIN bars = {"t", "chunk"}
    /\ bars["t"] = [total |-> 2, index |-> 1]
    /\ bars["chunk"].index >= 0
    /\ progress = <<1, 2>>

\* -------------------------------------------------------------- retrying
\* C14: cleanup tries to remove a temp file at most twice; the second
\* attempt is made only when the first was refused because the file was
\* locked, and only after the delay; a refused removal shows no error and
\* the run still returns; no call of the run is made a second time.
C14_RemovalRetriedOnce ==
    /\ \A f \in Files : rmTries[f] <= 2
    /\ pc = "rm_in_retry" =>
          /\ rmTries["temp_video_path"] = 1 /\ exists["temp_video_path"]
          /\ RemoveOutcome(lock["temp_video_path"]) = "PermissionError"
    /\ pc = "rm_out_retry" =>
          /\ rmTries["ai_output_temp.mp4"] = 1 /\ exists["ai_output_temp.mp4"]
          /\ RemoveOutcome(lock["ai_output_temp.mp4"]) = "PermissionError"
    /\ \A f \in Files : rmTries[f] = 2 => lock[f] # "transient"
    /\ \A f \in Files : (Returned /\ InTry /\ exists[f]) => rmTries[f] = 2
    /\ (InTry /\ pc \in {"rm_in", "rm_in_retry", "rm_out", "rm_out_retry", "returned"}) =>
          Len(errors) = (IF Passed("ERROR") THEN 1 ELSE 0)
    /\ NoRepeat(ops)

\* the run completed, both removals of the temp input were refused, nothing
\* was shown
C14_Witness ==
    /\ Returned
    /\ Passed("DONE")
    /\ rmTries["temp_video_path"] = 2
    /\ exists["temp_video_path"]
    /\ errors = <<>>

\* --------------------------------------------------------------- listing
RECURSIVE SumOfLengths(_)
SumOfLengths(segs) ==
    IF segs = <<>> THEN 0
    ELSE (Head(segs).end - Head(segs).start) + SumOfLengths(Tail(segs))

\* C15: the decisions listed for the user are exactly the segments handed
\* to the assembler, one for one and with their clamped bounds, and the
\* total shown is the sum of the lengths of those segments.
C15_ListingIsAccepted ==
    pc = "concat" =>
        /\ Len(decisions) = Len(subclips)
        /\ \A i \in 1..Len(subclips) :
              /\ i <= Len(decisions)
              /\ decisions[i].start = subclips[i].start
              /\ decisions[i].end = subclips[i].end
        /\ total_cut_duration = SumOfLengths(subclips)

\* --------------------------------------------------------------- overlap
\* two ranges share an interval of positive length
Overlap(a, b) == Max(a.start, b.start) < Min(a.end, b.end)
NonOverlapping(segs) ==
    \A i, j \in 1..Len(segs) : i # j => ~Overlap(segs[i], segs[j])

\* C16 as stated: whatever the model answered, no two segments handed to the
\* assembler overlap.
C16_SegmentsNeverOverlap ==
    pc = "concat" => NonOverlapping(subclips)

\* C16 as amended: when no two decoded entries overlap, no two segments
\* handed to the assembler do.
C16_NoOverlapIntroduced ==
    (pc = "concat" /\ NonOverlapping(timestamps)) => NonOverlapping(subclips)

\* two adjacent entries, the first clamped at 0 and the second at the end of
\* the source, are both kept
C16_Witness ==
    /\ pc = "concat"
    /\ timestamps = <<[start |-> -50, end |-> 51], [start |-> 51, end |-> 250]>>
    /\ subclips = <<[start |-> 0, end |-> 51], [start |-> 51, end |-> 200]>>

\* ------------------------------------------------------------ credential
\* C18: a run whose API key is missing, or is rejected by genai.configure,
\* ends there: it has made no call to the service, has created no local
\* temp file and has not entered the pipeline.
C18_CredentialFailsFast ==
    (Shown("MissingApiKey") \/ Shown("CredentialError")) =>
        /\ Returned
        /\ Len(errors) = 1
        /\ ops = <<>>
        /\ \A f \in Files : ~exists[f]
        /\ stages = <<"INIT">>
        /\ remote = "NONE" /\ video_file = "None"

\* genai.configure rejected the key and the run ended
C18_Witness ==
    /\ Returned
    /\ errors = <<"CredentialError">>

\* --------------------------------------------------------------- handles
\* C19: when the run returns, neither the source clip nor the concatenated
\* clip is open, on the successful path and on every failing one; and no
\* removal of the temp input is attempted while one of them is open.
C19_HandlesClosed ==
    /\ Returned => (clip # "open" /\ final_clip # "open")
    /\ (pc \in {"rm_in", "rm_in_retry", "rm_out", "rm_out_retry"}
          \/ rmTries["temp_video_path"] > 0) =>
          (clip # "open" /\ final_clip # "open")

\* the encoder failed with both clips open; both were closed before the temp
\* input was removed
C19_Witness ==
    /\ Returned
    /\ Passed("ERROR")
    /\ Called("write_videofile")
    /\ clip = "closed" /\ final_clip = "closed"
    /\ rmTries["temp_video_path"] >= 1
\* ----------------------------------------------------------------- twice
\* C17: when the finally block is run a second time on a run that has
\* returned from it, nothing the run has left behind or shown changes: no
\* file appears or disappears, no message is added, no call is made, the
\* clips stay as they are.
C17_CleanupIdempotent ==
    cleaned # <<>> => Left = cleaned[1]

\* the second cleanup of a failed render returned: the files were gone and
\* the clips closed before it, and still are
C17_Witness ==
    /\ Returned
    /\ cleaned # <<>>
    /\ Shown("UnexpectedError")
    /\ clip = "closed" /\ final_clip = "closed"
    /\ \A f \in Files : ~exists[f] /\ rmTries[f] = 0

\* --------------------------------------------------------------- polling
\* C20: once the script waits for the uploaded file it leaves the wait loop
\* and goes on to return after CLEANUP, given that the service does not keep
\* the file in PROCESSING for ever; and it leaves the loop only on a poll
\* that finds the file no longer in PROCESSING (or on a failed query): while
\* the file stays in PROCESSING the script stays in the loop.
C20_PollingTerminates ==
    /\ (pc = "poll") ~> (Returned /\ CleanupRan)
    /\ [][ (pc = "poll" /\ pc' # "poll") =>
              \/ remote # "PROCESSING" /\ file_state' = remote
              \/ errors' = Append(errors, "UnexpectedError") ]_vars

\* the loop has slept as often as it may while the file was in PROCESSING;
\* the file has just become ACTIVE
C20_Witness ==
    /\ pc = "poll"
    /\ polls = MaxPolls
    /\ file_state = "PROCESSING"
    /\ remote = "ACTIVE"

\* -------------------------------------------------------------- sessions
\* C11: two runs in progress at the same time have different temp input
\* paths and different temp output paths; no run overwrites or removes a
\* file of the other, and what a run presents is the file it wrote.
C11_TempPathsDistinct ==
    \A s, t \in Sessions :
        (s # t /\ Running(s) /\ Running(t)) =>
            /\ session[s].temp_video_path # "None" =>
                  session[s].temp_video_path # session[t].temp_video_path
            /\ session[s].output_path # "None" =>
                  session[s].output_path # session[t].output_path
            /\ session[s].touched = {}
            /\ session[s].shown \in {"none", s}
====
